---- MODULE Spec2Model ----
(***************************************************************************)
(* DustLink: the session subsystem (UDustLinkSubsystem), the online        *)
(* session interface it drives, and the menu widget (UDustLinkMenu) that   *)
(* subscribes to its completion delegates.                                 *)
(*                                                                         *)
(* Everything runs on the game thread, so every public call, button click  *)
(* and backend completion is one atomic step: the step runs the whole      *)
(* handler, including every delegate it triggers and every call those      *)
(* delegates make.  `trace` holds the events of the last step in program   *)
(* order; `obs` holds running counts of calls and published notifications  *)
(* and the arguments of the latest MenuSetup calls.                        *)
(***************************************************************************)
EXTENDS Integers, Sequences, FiniteSets, TLC

\* ---- bounds of the model ----
MaxCalls == 3          \* calls made from outside (public calls, clicks, setups)
MaxResultsLen == 3     \* longest result sequence the backend returns
NestedChoices == 2     \* independent accept/reject choices inside one step

\* ---- program constants ----
DefaultNumPublicConnections == 4
JoinMaxSearchResults == 20000

DefaultMatchType == "Error404"
\* Labels a caller passes, and the MatchType settings that sessions found by
\* a search carry (one of them differs from a label only in case).
MatchLabels == {"Coop", "Error404"}
Strings == {"coop", "Error404"}
SlotCounts == {2, 4}
\* The (slot count, match type) pairs a caller asks for.
Intents == {d \in SlotCounts \X MatchLabels : (d[1] = 2) <=> (d[2] = "Coop")}
SearchCaps == {JoinMaxSearchResults}
Kinds == {"create", "find", "join", "destroy", "start"}
JoinCodes == {"Success", "SessionIsFull", "UnknownError"}
NoHandle == 0
NoSettings == [set |-> FALSE]
NoSearch == [set |-> FALSE]
NoSetup == [set |-> FALSE]

VARIABLES sub, be, ui, obs, trace

vars == <<sub, be, ui, obs, trace>>

\* The state a step starts from, with an empty event list.
World == [sub |-> sub, be |-> be, ui |-> ui, obs |-> obs, trace |-> <<>>]

Emit(w, ev) == [w EXCEPT !.trace = Append(@, ev)]

Apply(w) ==
    /\ sub' = w.sub
    /\ be' = w.be
    /\ ui' = w.ui
    /\ obs' = w.obs
    /\ trace' = w.trace

\* ---- strings ----
\* FString::operator== compares ignoring case.
ToLower(s) == IF s = "Coop" THEN "coop" ELSE IF s = "Error404" THEN "error404" ELSE s

FStringEquals(a, b) == ToLower(a) = ToLower(b)

\* ---- result sequences ----
MatchTypeSeqs == UNION {[1..n -> Strings] : n \in 0..MaxResultsLen}

\* A search result: an opaque connect reference and the MatchType setting.
MakeResults(ms) == [i \in 1..Len(ms) |-> [ref |-> i, MatchType |-> ms[i]]]

ResultSeqs == {MakeResults(ms) : ms \in MatchTypeSeqs}

\* The subsystem never reads the settings of a record, only the menu does:
\* while nothing is subscribed the results differ only in their number.
PlainSeqs == {MakeResults([i \in 1..n |-> DefaultMatchType]) : n \in 0..MaxResultsLen}

\* ---- events of a step ----
RECURSIVE CountEvents(_, _, _)
CountEvents(tr, e, k) ==
    IF tr = <<>> THEN 0
    ELSE (IF Head(tr).e = e /\ Head(tr).kind = k THEN 1 ELSE 0) + CountEvents(Tail(tr), e, k)

EventIndices(tr, e, k) == {i \in 1..Len(tr) : tr[i].e = e /\ tr[i].kind = k}

\* The accept/reject choice for the next JoinSession made inside a step.
NextChoice(w, ch) ==
    ch[(CountEvents(w.trace, "call", "JoinSession") % Cardinality(DOMAIN ch)) + 1]

RECURSIVE Descending(_)
Descending(S) ==
    IF S = {} THEN <<>>
    ELSE LET m == CHOOSE x \in S : \A y \in S : y <= x
         IN <<m>> \o Descending(S \ {m})

RECURSIVE Ascending(_)
Ascending(S) ==
    IF S = {} THEN <<>>
    ELSE LET m == CHOOSE x \in S : \A y \in S : x <= y
         IN <<m>> \o Ascending(S \ {m})

\* ---- the online session interface (the backend) ----
\* Add...Delegate_Handle: a new registration under a fresh handle.
AddDelegate_Handle(w, k) ==
    Emit([w EXCEPT !.be.regs[k] = @ \cup {w.be.nextHandle},
                   !.be.nextHandle = @ + 1],
         [e |-> "register", kind |-> k, handle |-> w.be.nextHandle])

\* Clear...Delegate_Handle: removes the registration with that handle, if any.
ClearDelegate_Handle(w, k, h) ==
    Emit([w EXCEPT !.be.regs[k] = @ \ {h}],
         [e |-> "unregister", kind |-> k, handle |-> h, live |-> h \in w.be.regs[k]])

\* IOnlineSession::DestroySession(NAME_GameSession); the result is ignored.
BackendDestroySession(w) ==
    Emit([w EXCEPT !.be.pending["destroy"] = @ + 1,
                   !.obs.destroys = @ + 1],
         [e |-> "primitive", kind |-> "destroy", accepted |-> TRUE])

\* IOnlineSession::CreateSession(id, NAME_GameSession, settings)
BackendCreateSession(w, acc) ==
    Emit([w EXCEPT !.be.pending["create"] = IF acc THEN @ + 1 ELSE @,
                   !.be.lastCreateSettings = w.sub.LastSessionSettings],
         [e |-> "primitive", kind |-> "create", accepted |-> acc])

\* IOnlineSession::FindSessions(id, search): the backend keeps the search object.
BackendFindSessions(w, acc) ==
    Emit([w EXCEPT !.be.findPending = IF acc THEN @ \cup {w.sub.LastSessionSearch.id} ELSE @],
         [e |-> "primitive", kind |-> "find", accepted |-> acc])

\* IOnlineSession::JoinSession(id, NAME_GameSession, result)
BackendJoinSession(w, r, acc) ==
    Emit([w EXCEPT !.be.pending["join"] = IF acc THEN @ + 1 ELSE @],
         [e |-> "primitive", kind |-> "join", accepted |-> acc, result |-> r])

\* ---- UDustLinkMenu: handlers bound to the subsystem's delegates ----
OnCreateSession(w, bWasSuccessful) ==
    LET w1 == Emit(w, [e |-> "handler", kind |-> "OnCreateSession", flag |-> bWasSuccessful])
    IN IF ~bWasSuccessful
       THEN [w1 EXCEPT !.ui.HostEnabled = TRUE]
       ELSE Emit(w1, [e |-> "travel", kind |-> "ServerTravel"])

OnDestroySession(w, bWasSuccessful) ==
    LET w1 == Emit(w, [e |-> "handler", kind |-> "OnDestroySession", flag |-> bWasSuccessful])
    IN IF ~bWasSuccessful
       THEN w1
       ELSE Emit(w1, [e |-> "travel", kind |-> "ServerTravel"])

OnStartSession(w, bWasSuccessful) ==
    Emit(w, [e |-> "handler", kind |-> "OnStartSession", flag |-> bWasSuccessful])

OnJoinSession(w, Result) ==
    LET w1 == Emit(w, [e |-> "handler", kind |-> "OnJoinSession", code |-> Result])
    IN IF ~w1.be.online
       THEN w1
       ELSE LET w2 == IF Result # "Success" THEN [w1 EXCEPT !.ui.JoinEnabled = TRUE] ELSE w1
            IN Emit(w2, [e |-> "travel", kind |-> "ClientTravel"])

\* ---- UDustLinkSubsystem: delegates published to the menu ----
RECURSIVE DeliverCreate(_, _, _)
DeliverCreate(w, b, n) ==
    IF n = 0 THEN w ELSE DeliverCreate(OnCreateSession(w, b), b, n - 1)

RECURSIVE DeliverJoin(_, _, _)
DeliverJoin(w, code, n) ==
    IF n = 0 THEN w ELSE DeliverJoin(OnJoinSession(w, code), code, n - 1)

\* DustLinkOnCreateSessionComplete.Broadcast(b)
BroadcastCreate(w, b) ==
    DeliverCreate(Emit([w EXCEPT !.obs.pub["create"] = @ + 1],
                       [e |-> "publish", kind |-> "create", flag |-> b,
                        regs |-> w.be.regs["create"]]),
                  b, w.ui.subs)

\* DustLinkOnJoinSessionComplete.Broadcast(code)
BroadcastJoin(w, code) ==
    DeliverJoin(Emit([w EXCEPT !.obs.pub["join"] = @ + 1],
                     [e |-> "publish", kind |-> "join", code |-> code,
                        regs |-> w.be.regs["join"]]),
                code, w.ui.subs)

\* ---- UDustLinkSubsystem: public operations ----
\* CreateSessionSettings never marking the session as a LAN match.
CreateSessionSettingsNeverLAN(w, NumPublicConnections, MatchType) ==
    Emit([w EXCEPT !.sub.LastSessionSettings =
            [set |-> TRUE,
             bIsLANMatch |-> FALSE,
             NumPublicConnections |-> NumPublicConnections,
             bAllowJoinInProgress |-> TRUE,
             bShouldAdvertise |-> TRUE,
             bUsesPresence |-> TRUE,
             bUseLobbiesIfAvailable |-> TRUE,
             MatchType |-> MatchType]],
         [e |-> "build", kind |-> "create"])

CreateSessionSettings(w, NumPublicConnections, MatchType) ==
    Emit([w EXCEPT !.sub.LastSessionSettings =
            [set |-> TRUE,
             bIsLANMatch |-> w.be.subsystemIsNull,
             NumPublicConnections |-> NumPublicConnections,
             bAllowJoinInProgress |-> TRUE,
             bShouldAdvertise |-> TRUE,
             bUsesPresence |-> TRUE,
             bUseLobbiesIfAvailable |-> TRUE,
             MatchType |-> MatchType]],
         [e |-> "build", kind |-> "create"])

\* CreateSession without the replace-on-create destroy.
CreateSessionNoDestroy(w0, NumPublicConnections, MatchType, acc) ==
    LET w == Emit([w0 EXCEPT !.obs.issued["create"] = @ + 1],
                  [e |-> "call", kind |-> "CreateSession",
                   n |-> NumPublicConnections, m |-> MatchType])
    IN IF ~w.sub.valid
       THEN w
       ELSE LET w2 == [AddDelegate_Handle(w, "create")
                          EXCEPT !.sub.CreateSessionCompleteDelegateHandle = w.be.nextHandle]
                w3 == CreateSessionSettings(w2, NumPublicConnections, MatchType)
                w4 == BackendCreateSession(w3, acc)
            IN IF acc
               THEN w4
               ELSE BroadcastCreate(
                        ClearDelegate_Handle(w4, "create",
                            w4.sub.CreateSessionCompleteDelegateHandle),
                        FALSE)

\* CreateSession without the check of the backend handle.
CreateSessionUnguarded(w0, NumPublicConnections, MatchType, acc) ==
    LET w == Emit([w0 EXCEPT !.obs.issued["create"] = @ + 1],
                  [e |-> "call", kind |-> "CreateSession",
                   n |-> NumPublicConnections, m |-> MatchType])
        w1 == IF w.be.sessionExists THEN BackendDestroySession(w) ELSE w
        w2 == [AddDelegate_Handle(w1, "create")
                  EXCEPT !.sub.CreateSessionCompleteDelegateHandle = w1.be.nextHandle]
        w3 == CreateSessionSettings(w2, NumPublicConnections, MatchType)
        w4 == BackendCreateSession(w3, acc)
    IN IF acc
       THEN w4
       ELSE BroadcastCreate(
                ClearDelegate_Handle(w4, "create",
                    w4.sub.CreateSessionCompleteDelegateHandle),
                FALSE)

\* CreateSession destroying the existing session after the create was tried.
CreateSessionDestroyLast(w0, NumPublicConnections, MatchType, acc) ==
    LET w == Emit([w0 EXCEPT !.obs.issued["create"] = @ + 1],
                  [e |-> "call", kind |-> "CreateSession",
                   n |-> NumPublicConnections, m |-> MatchType])
    IN IF ~w.sub.valid
       THEN w
       ELSE LET w2 == [AddDelegate_Handle(w, "create")
                          EXCEPT !.sub.CreateSessionCompleteDelegateHandle = w.be.nextHandle]
                w3 == CreateSessionSettings(w2, NumPublicConnections, MatchType)
                w4 == BackendCreateSession(w3, acc)
                w5 == IF acc
                      THEN w4
                      ELSE BroadcastCreate(
                               ClearDelegate_Handle(w4, "create",
                                   w4.sub.CreateSessionCompleteDelegateHandle),
                               FALSE)
            IN IF w5.be.sessionExists THEN BackendDestroySession(w5) ELSE w5

\* CreateSession keeping the stored handle while it is still registered.
CreateSessionKeepsToken(w0, NumPublicConnections, MatchType, acc) ==
    LET w == Emit([w0 EXCEPT !.obs.issued["create"] = @ + 1],
                  [e |-> "call", kind |-> "CreateSession",
                   n |-> NumPublicConnections, m |-> MatchType])
    IN IF ~w.sub.valid
       THEN w
       ELSE LET w1 == IF w.be.sessionExists THEN BackendDestroySession(w) ELSE w
                keep == w1.sub.CreateSessionCompleteDelegateHandle \in w1.be.regs["create"]
                w2 == [AddDelegate_Handle(w1, "create")
                          EXCEPT !.sub.CreateSessionCompleteDelegateHandle =
                                     IF keep THEN @ ELSE w1.be.nextHandle]
                w3 == CreateSessionSettings(w2, NumPublicConnections, MatchType)
                w4 == BackendCreateSession(w3, acc)
            IN IF acc
               THEN w4
               ELSE BroadcastCreate(
                        ClearDelegate_Handle(w4, "create",
                            w4.sub.CreateSessionCompleteDelegateHandle),
                        FALSE)

CreateSession(w0, NumPublicConnections, MatchType, acc) ==
    LET w == Emit([w0 EXCEPT !.obs.issued["create"] = @ + 1],
                  [e |-> "call", kind |-> "CreateSession",
                   n |-> NumPublicConnections, m |-> MatchType])
    IN IF ~w.sub.valid
       THEN w
       ELSE LET w1 == IF w.be.sessionExists THEN BackendDestroySession(w) ELSE w
                w2 == [AddDelegate_Handle(w1, "create")
                          EXCEPT !.sub.CreateSessionCompleteDelegateHandle = w1.be.nextHandle]
                w3 == CreateSessionSettings(w2, NumPublicConnections, MatchType)
                w4 == BackendCreateSession(w3, acc)
            IN IF acc
               THEN w4
               ELSE BroadcastCreate(
                        ClearDelegate_Handle(w4, "create",
                            w4.sub.CreateSessionCompleteDelegateHandle),
                        FALSE)

\* JoinSession returning silently when the backend handle is invalid.
JoinSessionSilent(w0, SessionResult, acc) ==
    LET w == Emit([w0 EXCEPT !.obs.issued["join"] = @ + 1],
                  [e |-> "call", kind |-> "JoinSession", result |-> SessionResult])
    IN IF ~w.sub.valid
       THEN w
       ELSE LET w1 == [AddDelegate_Handle(w, "join")
                          EXCEPT !.sub.JoinSessionCompleteDelegateHandle = w.be.nextHandle]
                w2 == BackendJoinSession(w1, SessionResult, acc)
            IN IF acc
               THEN w2
               ELSE BroadcastJoin(
                        ClearDelegate_Handle(w2, "join",
                            w2.sub.JoinSessionCompleteDelegateHandle),
                        "UnknownError")

JoinSession(w0, SessionResult, acc) ==
    LET w == Emit([w0 EXCEPT !.obs.issued["join"] = @ + 1],
                  [e |-> "call", kind |-> "JoinSession", result |-> SessionResult])
    IN IF ~w.sub.valid
       THEN BroadcastJoin(w, "UnknownError")
       ELSE LET w1 == [AddDelegate_Handle(w, "join")
                          EXCEPT !.sub.JoinSessionCompleteDelegateHandle = w.be.nextHandle]
                w2 == BackendJoinSession(w1, SessionResult, acc)
            IN IF acc
               THEN w2
               ELSE BroadcastJoin(
                        ClearDelegate_Handle(w2, "join",
                            w2.sub.JoinSessionCompleteDelegateHandle),
                        "UnknownError")

\* DestroySession implemented after the pattern of the other operations.
DestroySessionImplemented(w) ==
    LET w1 == Emit(w, [e |-> "call", kind |-> "DestroySession"])
    IN IF ~w1.sub.valid
       THEN w1
       ELSE BackendDestroySession(AddDelegate_Handle(w1, "destroy"))

DestroySession(w) == Emit(w, [e |-> "call", kind |-> "DestroySession"])

StartSession(w) == Emit(w, [e |-> "call", kind |-> "StartSession"])

\* ---- UDustLinkMenu::OnFindSessions ----
\* The loop over SessionResults: joins the first result whose MatchType
\* setting compares equal to the menu's MatchType, then stops.
RECURSIVE JoinFirstMatch(_, _, _, _)
JoinFirstMatch(w, SessionResults, i, ch) ==
    IF i > Len(SessionResults) THEN w
    ELSE IF FStringEquals(SessionResults[i].MatchType, w.ui.MatchType)
         THEN JoinSession(w, SessionResults[i], NextChoice(w, ch))
         ELSE JoinFirstMatch(w, SessionResults, i + 1, ch)

\* OnFindSessions re-enabling the join button on an empty result only.
OnFindSessionsIgnoresFlag(w, SessionResults, bWasSuccessful, ch) ==
    LET w1 == Emit(w, [e |-> "handler", kind |-> "OnFindSessions",
                       results |-> SessionResults, flag |-> bWasSuccessful,
                       target |-> w.ui.MatchType])
    IN IF ~w1.ui.DustLinkSubsystem
       THEN w1
       ELSE LET w2 == JoinFirstMatch(w1, SessionResults, 1, ch)
            IN IF Len(SessionResults) = 0
               THEN [w2 EXCEPT !.ui.JoinEnabled = TRUE]
               ELSE w2

OnFindSessions(w, SessionResults, bWasSuccessful, ch) ==
    LET w1 == Emit(w, [e |-> "handler", kind |-> "OnFindSessions",
                       results |-> SessionResults, flag |-> bWasSuccessful,
                       target |-> w.ui.MatchType])
    IN IF ~w1.ui.DustLinkSubsystem
       THEN w1
       ELSE LET w2 == JoinFirstMatch(w1, SessionResults, 1, ch)
            IN IF ~bWasSuccessful \/ Len(SessionResults) = 0
               THEN [w2 EXCEPT !.ui.JoinEnabled = TRUE]
               ELSE w2

RECURSIVE DeliverFind(_, _, _, _, _)
DeliverFind(w, rs, b, ch, n) ==
    IF n = 0 THEN w ELSE DeliverFind(OnFindSessions(w, rs, b, ch), rs, b, ch, n - 1)

\* DustLinkOnFindSessionsComplete.Broadcast(results, b)
BroadcastFind(w, rs, b, ch) ==
    DeliverFind(Emit([w EXCEPT !.obs.pub["find"] = @ + 1],
                     [e |-> "publish", kind |-> "find", results |-> rs, flag |-> b,
                        regs |-> w.be.regs["find"]]),
                rs, b, ch, w.ui.subs)

FindSessions(w0, MaxSearchResults, acc, ch) ==
    LET w == Emit([w0 EXCEPT !.obs.issued["find"] = @ + 1],
                  [e |-> "call", kind |-> "FindSessions"])
    IN IF ~w.sub.valid
       THEN w
       ELSE LET w1 == [AddDelegate_Handle(w, "find")
                          EXCEPT !.sub.FindSessionsCompleteDelegateHandle = w.be.nextHandle]
                w2 == [w1 EXCEPT !.sub.LastSessionSearch =
                          [set |-> TRUE,
                           id |-> w1.be.nextSearch,
                           MaxSearchResults |-> MaxSearchResults,
                           bIsLanQuery |-> w1.be.subsystemIsNull,
                           searchLobbies |-> TRUE,
                           SearchResults |-> <<>>],
                                 !.be.nextSearch = @ + 1]
                w3 == BackendFindSessions(w2, acc)
            IN IF acc
               THEN w3
               ELSE BroadcastFind(
                        ClearDelegate_Handle(w3, "find",
                            w3.sub.FindSessionsCompleteDelegateHandle),
                        <<>>, FALSE, ch)

\* ---- UDustLinkSubsystem: completion callbacks ----
\* The create callback publishing success whatever the backend reported.
OnCreateSessionCompleteDropsFlag(w, bWasSuccessful) ==
    IF ~w.sub.valid
    THEN w
    ELSE BroadcastCreate(
             ClearDelegate_Handle(w, "create", w.sub.CreateSessionCompleteDelegateHandle),
             TRUE)

\* The create callback clearing the find handle along with its own.
OnCreateSessionCompleteClearsFind(w, bWasSuccessful) ==
    IF ~w.sub.valid
    THEN w
    ELSE BroadcastCreate(
             ClearDelegate_Handle(
                 ClearDelegate_Handle(w, "find", w.sub.FindSessionsCompleteDelegateHandle),
                 "create", w.sub.CreateSessionCompleteDelegateHandle),
             bWasSuccessful)

OnCreateSessionComplete(w, bWasSuccessful) ==
    IF ~w.sub.valid
    THEN w
    ELSE BroadcastCreate(
             ClearDelegate_Handle(w, "create", w.sub.CreateSessionCompleteDelegateHandle),
             bWasSuccessful)

\* The find callback passing the backend's flag through unchanged.
OnFindSessionCompleteKeepsFlag(w, bWasSuccessful, ch) ==
    IF ~w.sub.valid
    THEN w
    ELSE BroadcastFind(
             ClearDelegate_Handle(w, "find", w.sub.FindSessionsCompleteDelegateHandle),
             w.sub.LastSessionSearch.SearchResults, bWasSuccessful, ch)

OnFindSessionComplete(w, bWasSuccessful, ch) ==
    IF ~w.sub.valid
    THEN w
    ELSE LET b == IF Len(w.sub.LastSessionSearch.SearchResults) <= 0
                  THEN FALSE ELSE bWasSuccessful
         IN BroadcastFind(
                ClearDelegate_Handle(w, "find", w.sub.FindSessionsCompleteDelegateHandle),
                w.sub.LastSessionSearch.SearchResults, b, ch)

\* The join callback collapsing every failure reason into UnknownError.
OnJoinSessionCompleteDropsCode(w, Result) ==
    IF ~w.sub.valid
    THEN w
    ELSE BroadcastJoin(
             ClearDelegate_Handle(w, "join", w.sub.JoinSessionCompleteDelegateHandle),
             IF Result = "Success" THEN "Success" ELSE "UnknownError")

OnJoinSessionComplete(w, Result) ==
    IF ~w.sub.valid
    THEN w
    ELSE BroadcastJoin(
             ClearDelegate_Handle(w, "join", w.sub.JoinSessionCompleteDelegateHandle),
             Result)

OnDestroySessionComplete(w, bWasSuccessful) == w

OnStartSessionComplete(w, bWasSuccessful) == w

\* ---- the backend triggers the registered completion delegates ----
\* Every registration made by the subsystem is bound to the same callback
\* (the constructor's CreateUObject bindings); a registration removed while
\* the list is being walked is skipped.
RECURSIVE TriggerCreate(_, _, _)
TriggerCreate(w, hs, b) ==
    IF hs = <<>> THEN w
    ELSE TriggerCreate(IF Head(hs) \in w.be.regs["create"]
                       THEN OnCreateSessionComplete(w, b) ELSE w,
                       Tail(hs), b)

RECURSIVE TriggerFind(_, _, _, _)
TriggerFind(w, hs, b, ch) ==
    IF hs = <<>> THEN w
    ELSE TriggerFind(IF Head(hs) \in w.be.regs["find"]
                     THEN OnFindSessionComplete(w, b, ch) ELSE w,
                     Tail(hs), b, ch)

RECURSIVE TriggerJoin(_, _, _)
TriggerJoin(w, hs, code) ==
    IF hs = <<>> THEN w
    ELSE TriggerJoin(IF Head(hs) \in w.be.regs["join"]
                     THEN OnJoinSessionComplete(w, code) ELSE w,
                     Tail(hs), code)

RECURSIVE TriggerDestroy(_, _, _)
TriggerDestroy(w, hs, b) ==
    IF hs = <<>> THEN w
    ELSE TriggerDestroy(IF Head(hs) \in w.be.regs["destroy"]
                        THEN OnDestroySessionComplete(w, b) ELSE w,
                        Tail(hs), b)

\* The order in which the backend walks its delegate list.
Walk(S, rev) == IF rev THEN Descending(S) ELSE Ascending(S)

\* ---- UDustLinkMenu: operations ----
\* MenuSetup subscribing without storing its arguments.
MenuSetupKeepsDefaults(w0, NumberOfPublicConnections, TypeOfMatch, ctx) ==
    LET args == [set |-> TRUE, n |-> NumberOfPublicConnections, m |-> TypeOfMatch]
        w == Emit([w0 EXCEPT !.ui.inViewport = TRUE, !.obs.lastSetup = args],
                  [e |-> "call", kind |-> "MenuSetup"])
    IN IF ~ctx
       THEN w
       ELSE [w EXCEPT !.ui.DustLinkSubsystem = TRUE,
                      !.ui.subs = @ + 1,
                      !.obs.lastRecorded = args]

\* ctx: the world, the player controller and the game instance were found.
\* obs.lastSetup keeps the arguments of the latest call, obs.lastRecorded
\* those of the latest call that got as far as storing them.
MenuSetup(w0, NumberOfPublicConnections, TypeOfMatch, ctx) ==
    LET args == [set |-> TRUE, n |-> NumberOfPublicConnections, m |-> TypeOfMatch]
        w == Emit([w0 EXCEPT !.ui.inViewport = TRUE, !.obs.lastSetup = args],
                  [e |-> "call", kind |-> "MenuSetup"])
    IN IF ~ctx
       THEN w
       ELSE [w EXCEPT !.ui.DustLinkSubsystem = TRUE,
                      !.ui.NumPublicConnections = NumberOfPublicConnections,
                      !.ui.MatchType = TypeOfMatch,
                      !.ui.subs = @ + 1,
                      !.obs.lastRecorded = args]

MenuTearDown(w) ==
    Emit([w EXCEPT !.ui.inViewport = FALSE], [e |-> "call", kind |-> "MenuTearDown"])

HostButtonClicked(w0, acc) ==
    LET w == Emit([w0 EXCEPT !.ui.HostEnabled = FALSE],
                  [e |-> "call", kind |-> "HostButtonClicked"])
    IN IF ~w.ui.DustLinkSubsystem
       THEN w
       ELSE CreateSession(w, w.ui.NumPublicConnections, w.ui.MatchType, acc)

JoinButtonClicked(w0, acc, ch) ==
    LET w == Emit([w0 EXCEPT !.ui.JoinEnabled = FALSE],
                  [e |-> "call", kind |-> "JoinButtonClicked"])
    IN IF ~w.ui.DustLinkSubsystem
       THEN w
       ELSE FindSessions(w, JoinMaxSearchResults, acc, ch)

\* ---- initial state: after both constructors ----
Init ==
    /\ \E v \in BOOLEAN :
         sub = [valid |-> v,
                CreateSessionCompleteDelegateHandle |-> NoHandle,
                FindSessionsCompleteDelegateHandle |-> NoHandle,
                JoinSessionCompleteDelegateHandle |-> NoHandle,
                LastSessionSettings |-> NoSettings,
                LastSessionSearch |-> NoSearch]
    /\ \E on \in BOOLEAN, lan \in BOOLEAN :
         /\ sub.valid => on
         /\ be = [online |-> on,
                  subsystemIsNull |-> lan,
                  regs |-> [k \in Kinds |-> {}],
                  nextHandle |-> 1,
                  nextSearch |-> 1,
                  pending |-> [k \in {"create", "join", "destroy"} |-> 0],
                  findPending |-> {},
                  sessionExists |-> FALSE,
                  lastCreateSettings |-> NoSettings]
    /\ ui = [DustLinkSubsystem |-> FALSE,
             NumPublicConnections |-> DefaultNumPublicConnections,
             MatchType |-> DefaultMatchType,
             subs |-> 0,
             HostEnabled |-> TRUE,
             JoinEnabled |-> TRUE,
             inViewport |-> FALSE]
    /\ obs = [issued |-> [k \in {"create", "find", "join"} |-> 0],
              pub |-> [k \in {"create", "find", "join"} |-> 0],
              destroys |-> 0,
              calls |-> 0,
              lastSetup |-> NoSetup,
              lastRecorded |-> NoSetup]
    /\ trace = <<>>

\* A call from outside, counted against the budget.
Outside == [World EXCEPT !.obs.calls = @ + 1]

\* The choices a step can tell apart: the order in which a delegate list is
\* walked matters with two or more entries, and a step that can make n nested
\* JoinSession calls has up to n accept/reject choices to make.
Choices(n) ==
    IF n < 1 THEN {[i \in 1..1 |-> TRUE]}
    ELSE [1..(IF n > NestedChoices THEN NestedChoices ELSE n) -> BOOLEAN]

Orders(S) == IF Cardinality(S) < 2 THEN {FALSE} ELSE BOOLEAN

\* ---- steps: public calls on the subsystem ----
CallCreateSession ==
    /\ obs.calls < MaxCalls
    /\ \E d \in Intents, acc \in BOOLEAN :
         Apply(CreateSession(Outside, d[1], d[2], acc))

CallFindSessions ==
    /\ obs.calls < MaxCalls
    /\ \E cap \in SearchCaps, acc \in BOOLEAN, ch \in Choices(0) :
         Apply(FindSessions(Outside, cap, acc, ch))

CallJoinSession ==
    /\ obs.calls < MaxCalls
    /\ \E acc \in BOOLEAN :
         Apply(JoinSession(Outside, [ref |-> 1, MatchType |-> DefaultMatchType], acc))

CallDestroySession ==
    /\ obs.calls < MaxCalls
    /\ Apply(DestroySession(Outside))

CallStartSession ==
    /\ obs.calls < MaxCalls
    /\ Apply(StartSession(Outside))

\* ---- steps: the menu ----
CallMenuSetup ==
    /\ obs.calls < MaxCalls
    /\ \E d \in Intents, ctx \in BOOLEAN :
         Apply(MenuSetup(Outside, d[1], d[2], ctx))

CallMenuTearDown ==
    /\ obs.calls < MaxCalls
    /\ Apply(MenuTearDown(Outside))

ClickHost ==
    /\ obs.calls < MaxCalls
    /\ ui.inViewport /\ ui.HostEnabled
    /\ \E acc \in BOOLEAN : Apply(HostButtonClicked(Outside, acc))

ClickJoin ==
    /\ obs.calls < MaxCalls
    /\ ui.inViewport /\ ui.JoinEnabled
    /\ \E acc \in BOOLEAN, ch \in Choices(0) : Apply(JoinButtonClicked(Outside, acc, ch))

\* ---- steps: the backend completes an accepted primitive ----
BackendCreateCompletes ==
    /\ be.pending["create"] > 0
    /\ \E b \in BOOLEAN, rev \in Orders(be.regs["create"]) :
         LET w == Emit([World EXCEPT !.be.pending["create"] = @ - 1,
                                     !.be.sessionExists = IF b THEN TRUE ELSE @],
                       [e |-> "complete", kind |-> "create", flag |-> b])
         IN Apply(TriggerCreate(w, Walk(w.be.regs["create"], rev), b))

BackendFindCompletes ==
    \E id \in be.findPending, rs \in (IF ui.subs = 0 THEN PlainSeqs ELSE ResultSeqs), b \in BOOLEAN, rev \in Orders(be.regs["find"]),
       ch \in Choices(Cardinality(be.regs["find"]) * ui.subs) :
         LET w0 == [World EXCEPT !.be.findPending = @ \ {id}]
             w1 == IF w0.sub.LastSessionSearch.id = id
                   THEN [w0 EXCEPT !.sub.LastSessionSearch.SearchResults = rs]
                   ELSE w0
             w == Emit(w1, [e |-> "complete", kind |-> "find", flag |-> b,
                            results |-> rs, search |-> id])
         IN Apply(TriggerFind(w, Walk(w.be.regs["find"], rev), b, ch))

BackendJoinCompletes ==
    /\ be.pending["join"] > 0
    /\ \E code \in JoinCodes, rev \in Orders(be.regs["join"]) :
         LET w == Emit([World EXCEPT !.be.pending["join"] = @ - 1,
                                     !.be.sessionExists = IF code = "Success" THEN TRUE ELSE @],
                       [e |-> "complete", kind |-> "join", code |-> code])
         IN Apply(TriggerJoin(w, Walk(w.be.regs["join"], rev), code))

BackendDestroyCompletes ==
    /\ be.pending["destroy"] > 0
    /\ \E b \in BOOLEAN, rev \in Orders(be.regs["destroy"]) :
         LET w == Emit([World EXCEPT !.be.pending["destroy"] = @ - 1,
                                     !.be.sessionExists = IF b THEN FALSE ELSE @],
                       [e |-> "complete", kind |-> "destroy", flag |-> b])
         IN Apply(TriggerDestroy(w, Walk(w.be.regs["destroy"], rev), b))

\* The subsystem driven through its public operations.
Next ==
    \/ CallCreateSession
    \/ CallFindSessions
    \/ CallJoinSession
    \/ CallDestroySession
    \/ CallStartSession
    \/ BackendCreateCompletes
    \/ BackendFindCompletes
    \/ BackendJoinCompletes
    \/ BackendDestroyCompletes

Spec == Init /\ [][Next]_vars

\* The backend completes every primitive it accepted.
BackendFairness ==
    /\ WF_vars(BackendCreateCompletes)
    /\ WF_vars(BackendFindCompletes)
    /\ WF_vars(BackendJoinCompletes)
    /\ WF_vars(BackendDestroyCompletes)

FairSpec == Spec /\ BackendFairness

\* The subsystem driven by the menu.
MenuNext ==
    \/ CallMenuSetup
    \/ CallMenuTearDown
    \/ ClickHost
    \/ ClickJoin
    \/ BackendCreateCompletes
    \/ BackendFindCompletes
    \/ BackendJoinCompletes
    \/ BackendDestroyCompletes

MenuSpec == Init /\ [][MenuNext]_vars

FairMenuSpec == MenuSpec /\ BackendFairness

\* ---- reading the events of a step ----
HasEvent(tr, e, k) == EventIndices(tr, e, k) # {}

IsCall(tr, op) == HasEvent(tr, "call", op)

\* The step is a backend completion of kind k.
IsCompletion(tr, k) == Len(tr) > 0 /\ tr[1].e = "complete" /\ tr[1].kind = k

\* A primitive of kind k was invoked in the step and the backend answered acc.
Answered(tr, k, acc) ==
    \E i \in EventIndices(tr, "primitive", k) : tr[i].accepted = acc

Idle(k) == IF k = "find" THEN be.findPending = {} ELSE be.pending[k] = 0

AsyncKinds == {"create", "find", "join"}

\* ---- C1 ----
\* C1: the backend holds at most one live callback registration per
\* operation kind, after any sequence of calls and completions.
C1_SingleFlight == \A k \in Kinds : Cardinality(be.regs[k]) <= 1

\* ---- C2 ----
\* C2: once every issued operation of a kind has completed, no registration
\* of that kind remains live at the backend.
C2_UnregisterAlways == \A k \in AsyncKinds : Idle(k) => be.regs[k] = {}

\* ---- C3 ----
\* C3: the number of notifications published on a channel never exceeds the
\* number of operations issued of that kind.
C3_AtMostOnce == \A k \in AsyncKinds : obs.pub[k] <= obs.issued[k]

FindHandlerRuns(tr) == EventIndices(tr, "handler", "OnFindSessions")

RunEnd(tr, i) ==
    LET later == {j \in FindHandlerRuns(tr) : j > i}
    IN IF later = {} THEN Len(tr)
       ELSE (CHOOSE j \in later : \A x \in later : j <= x) - 1

JoinCallsOfRun(tr, i) ==
    {j \in (i + 1)..RunEnd(tr, i) : tr[j].e = "call" /\ tr[j].kind = "JoinSession"}

ExactMatches(rs, target) == {k \in 1..Len(rs) : rs[k].MatchType = target}

Lowest(S) == CHOOSE k \in S : \A x \in S : k <= x

\* C5: the FindComplete handler issues JoinSession at most once; when some
\* record's match type equals the target exactly it joins the one at the
\* lowest such index, and when none does it issues no join.
C5_ExactMatchJoin ==
    \A i \in FindHandlerRuns(trace) :
        LET rs == trace[i].results
            M == ExactMatches(rs, trace[i].target)
            J == JoinCallsOfRun(trace, i)
        IN /\ Cardinality(J) <= 1
           /\ M = {} => J = {}
           /\ M # {} => \E j \in J : trace[j].result = rs[Lowest(M)]

\* ---- C6 ----
\* C6: a CreateSession call made with a valid backend issues exactly one
\* destroy primitive when a session exists and none when no session exists,
\* whatever the backend answers to the create.
C6_Step ==
    (IsCall(trace', "CreateSession") /\ sub.valid) =>
        /\ CountEvents(trace', "primitive", "destroy") = (IF be.sessionExists THEN 1 ELSE 0)
        /\ obs'.destroys = obs.destroys + (IF be.sessionExists THEN 1 ELSE 0)

C6_ReplaceOnCreate == [][C6_Step]_vars

\* A create made while a session existed: the destroy was issued and the
\* create was rejected synchronously.
C6_Witness ==
    /\ IsCall(trace, "CreateSession")
    /\ CountEvents(trace, "primitive", "destroy") = 1
    /\ Answered(trace, "create", FALSE)

\* ---- C7 ----
\* C7: when the create primitive synchronously rejects, CreateSession
\* releases the registration it just made and publishes CreateComplete(false),
\* leaving no create registration live and the create kind Idle.
C7_SyncRejectCreate ==
    Answered(trace, "create", FALSE) =>
        /\ \E r \in EventIndices(trace, "register", "create") :
           \E u \in EventIndices(trace, "unregister", "create") :
           \E p \in EventIndices(trace, "publish", "create") :
               /\ r < u /\ u < p
               /\ trace[u].handle = trace[r].handle /\ trace[u].live
               /\ ~trace[p].flag
        /\ be.regs["create"] = {}
        /\ Idle("create")

\* ---- C8 ----
\* C8: every CreateSession, FindSessions or JoinSession call that fails before
\* returning publishes a failure notification on its own channel, and every
\* asynchronous failure publishes one too.
FailurePublished(tr, k) ==
    \E p \in EventIndices(tr, "publish", k) :
        IF k = "join" THEN tr[p].code # "Success" ELSE ~tr[p].flag

C8_EveryFailureNotifies ==
    /\ (IsCall(trace, "CreateSession") /\ ~Answered(trace, "create", TRUE))
          => FailurePublished(trace, "create")
    /\ (IsCall(trace, "FindSessions") /\ ~Answered(trace, "find", TRUE))
          => FailurePublished(trace, "find")
    /\ (IsCall(trace, "JoinSession") /\ ~Answered(trace, "join", TRUE))
          => FailurePublished(trace, "join")
    /\ (IsCompletion(trace, "create") /\ ~trace[1].flag) => FailurePublished(trace, "create")
    /\ (IsCompletion(trace, "find") /\ (~trace[1].flag \/ trace[1].results = <<>>))
          => FailurePublished(trace, "find")
    /\ (IsCompletion(trace, "join") /\ trace[1].code # "Success")
          => FailurePublished(trace, "join")

\* ---- C9 ----
\* C9: with an invalid backend handle, CreateSession and FindSessions register
\* nothing, invoke no backend primitive and leave the stored tokens, the last
\* descriptor and the last query unchanged.
C9_Step ==
    ((IsCall(trace', "CreateSession") \/ IsCall(trace', "FindSessions")) /\ ~sub.valid) =>
        /\ sub' = sub
        /\ be' = be
        /\ \A i \in 1..Len(trace') : trace'[i].e \notin {"register", "primitive"}

C9_BackendUnavailable == [][C9_Step]_vars

\* CreateSession was called on a subsystem whose backend handle is invalid.
C9_Witness == ~sub.valid /\ IsCall(trace, "CreateSession")

C12_SyncRejectFind ==
    Answered(trace, "find", FALSE) =>
        /\ \E r \in EventIndices(trace, "register", "find") :
           \E u \in EventIndices(trace, "unregister", "find") :
           \E p \in EventIndices(trace, "publish", "find") :
               /\ r < u /\ u < p
               /\ trace[u].handle = trace[r].handle /\ trace[u].live
               /\ trace[p].results = <<>> /\ ~trace[p].flag
        /\ be.regs["find"] = {}

\* ---- C13 ----
\* C13: when the join primitive synchronously rejects, JoinSession releases
\* the registration it just made and publishes JoinComplete(UnknownError),
\* leaving no join registration live.
C13_SyncRejectJoin ==
    Answered(trace, "join", FALSE) =>
        /\ \E r \in EventIndices(trace, "register", "join") :
           \E u \in EventIndices(trace, "unregister", "join") :
           \E p \in EventIndices(trace, "publish", "join") :
               /\ r < u /\ u < p
               /\ trace[u].handle = trace[r].handle /\ trace[u].live
               /\ trace[p].code = "UnknownError"
        /\ be.regs["join"] = {}

\* ---- C14 ----
OtherKind(k) == IF k = "create" THEN "find" ELSE "create"

PendingOf(b, k) == IF k = "find" THEN b.findPending ELSE b.pending[k]

StoredHandle(s, k) ==
    IF k = "create" THEN s.CreateSessionCompleteDelegateHandle
    ELSE IF k = "find" THEN s.FindSessionsCompleteDelegateHandle
    ELSE s.JoinSessionCompleteDelegateHandle

\* C14: a create and a find can be pending together, and the completion of
\* either releases only its own kind's registration and publishes only on its
\* own channel: the other kind's registrations, stored token, pending
\* operations and channel are left as they were.
C14_Step ==
    \A k \in {"create", "find"} :
        IsCompletion(trace', k) =>
            /\ HasEvent(trace', "publish", k)
            /\ StoredHandle(sub', k) \notin be'.regs[k]
            /\ be'.regs[OtherKind(k)] = be.regs[OtherKind(k)]
            /\ PendingOf(be', OtherKind(k)) = PendingOf(be, OtherKind(k))
            /\ StoredHandle(sub', OtherKind(k)) = StoredHandle(sub, OtherKind(k))
            /\ obs'.pub[OtherKind(k)] = obs.pub[OtherKind(k)]
            /\ \A i \in 1..Len(trace') : trace'[i].kind # OtherKind(k)

C14_CrossKindIndependence == [][C14_Step]_vars

\* A create completed and was published while a find was still pending with
\* its registration live.
C14_Witness ==
    /\ IsCompletion(trace, "create")
    /\ HasEvent(trace, "publish", "create")
    /\ be.findPending # {}
    /\ sub.FindSessionsCompleteDelegateHandle \in be.regs["find"]

\* ---- C15 ----
StubKinds == {"destroy", "start"}

StubHandlers == {"OnDestroySession", "OnStartSession"}

\* C15: DestroySession, StartSession and the destroy callback invoke no
\* primitive, register nothing, publish nothing and leave the subsystem's
\* members unchanged; no step ever publishes DestroyComplete or
\* StartComplete or runs their handlers, also not for the destroy that
\* CreateSession issues when it replaces a session.
C15_Step ==
    /\ (IsCall(trace', "DestroySession") \/ IsCall(trace', "StartSession")) =>
          /\ sub' = sub /\ be' = be /\ ui' = ui
          /\ Len(trace') = 1
    /\ IsCompletion(trace', "destroy") =>
          /\ sub' = sub /\ ui' = ui
          /\ be'.regs = be.regs
          /\ obs'.pub = obs.pub
          /\ Len(trace') = 1
    /\ \A i \in 1..Len(trace') :
          /\ trace'[i].e \in {"publish", "register"} => trace'[i].kind \notin StubKinds
          /\ trace'[i].e = "handler" => trace'[i].kind \notin StubHandlers
    /\ \A k \in StubKinds : be'.regs[k] = {}

C16_TeardownUnsubscribes ==
    ~ui.inViewport => \A i \in 1..Len(trace) : trace[i].e # "handler"

\* ---- C17 ----
\* The step issued the create primitive with a descriptor of slot count n
\* and match type m.
CreateIssuedWith(tr, b, n, m) ==
    /\ HasEvent(tr, "primitive", "create")
    /\ b.lastCreateSettings.set
    /\ b.lastCreateSettings.NumPublicConnections = n
    /\ b.lastCreateSettings.MatchType = m

DefaultsKept ==
    ~IsCall(trace', "MenuSetup") =>
        /\ ui'.NumPublicConnections = ui.NumPublicConnections
        /\ ui'.MatchType = ui.MatchType

\* C17: after MenuSetup(n, m), every HostButtonClicked issues the create
\* primitive with a descriptor whose slot count is n and whose match type is
\* m, the arguments of the most recent MenuSetup; nothing but MenuSetup
\* changes the recorded defaults.
C17_Step ==
    /\ (IsCall(trace', "HostButtonClicked") /\ obs.lastSetup.set) =>
          CreateIssuedWith(trace', be', obs.lastSetup.n, obs.lastSetup.m)
    /\ DefaultsKept

C17_HostUsesDefaults == [][C17_Step]_vars

\* C17 amended: the arguments are those of the most recent MenuSetup that
\* recorded them, and the click is made with a valid backend handle.
C17_AmendedStep ==
    /\ (IsCall(trace', "HostButtonClicked") /\ obs.lastRecorded.set /\ sub.valid) =>
          CreateIssuedWith(trace', be', obs.lastRecorded.n, obs.lastRecorded.m)
    /\ DefaultsKept

C17_HostUsesRecordedDefaults == [][C17_AmendedStep]_vars

\* The host button was clicked after MenuSetup(2, "Coop") and the create
\* primitive received a descriptor for 2 players of type "Coop".
C17_Witness ==
    /\ IsCall(trace, "HostButtonClicked")
    /\ obs.lastRecorded = [set |-> TRUE, n |-> 2, m |-> "Coop"]
    /\ CreateIssuedWith(trace, be, 2, "Coop")

\* ---- C18 ----
\* C18: when a find issued by JoinButtonClicked completes with a result set
\* holding a record whose match type equals the recorded one, exactly one
\* JoinSession is issued, for such a record; and when the backend completes
\* a join with Success, JoinComplete(Success) is published exactly once.
C18_FindThenAutoJoin ==
    /\ IsCompletion(trace, "find") =>
          LET rs == trace[1].results
              M == ExactMatches(rs, ui.MatchType)
              J == EventIndices(trace, "call", "JoinSession")
          IN M # {} =>
                /\ Cardinality(J) = 1
                /\ \A j \in J : \E k \in M : trace[j].result = rs[k]
    /\ (IsCompletion(trace, "join") /\ trace[1].code = "Success") =>
          /\ CountEvents(trace, "publish", "join") = 1
          /\ \A p \in EventIndices(trace, "publish", "join") : trace[p].code = "Success"

\* ---- C19 ----
\* The handler runs of the step that received an empty result set or flag false.
FailedFindDeliveries(tr) ==
    {i \in FindHandlerRuns(tr) : tr[i].results = <<>> \/ ~tr[i].flag}

\* C19: JoinButtonClicked disables the join button, and whenever FindComplete
\* is delivered to the menu with an empty result set or flag false, the join
\* button is enabled again.
C19_EmptyFindReenablesJoin ==
    /\ (IsCall(trace, "JoinButtonClicked") /\ FindHandlerRuns(trace) = {}) => ~ui.JoinEnabled
    /\ FailedFindDeliveries(trace) # {} => ui.JoinEnabled

\* The find started by the join button completed with no results and the
\* join button is enabled again.
C19_Witness ==
    /\ IsCompletion(trace, "find")
    /\ \E i \in FindHandlerRuns(trace) : trace[i].results = <<>>
    /\ ui.JoinEnabled

\* ---- C20 ----
\* C20: the descriptor a create hands to the backend has advertise,
\* use-presence, allow-join-in-progress and use-lobbies all true, the slot
\* count and match type the call was given, and a LAN flag that is true
\* exactly when the active online subsystem is the NULL one; the query a
\* find hands to the backend carries the same LAN flag.
C20_BuilderOutput ==
    /\ HasEvent(trace, "primitive", "create") =>
          \A c \in EventIndices(trace, "call", "CreateSession") :
              /\ be.lastCreateSettings = sub.LastSessionSettings
              /\ be.lastCreateSettings.bShouldAdvertise
              /\ be.lastCreateSettings.bUsesPresence
              /\ be.lastCreateSettings.bAllowJoinInProgress
              /\ be.lastCreateSettings.bUseLobbiesIfAvailable
              /\ be.lastCreateSettings.NumPublicConnections = trace[c].n
              /\ be.lastCreateSettings.MatchType = trace[c].m
              /\ be.lastCreateSettings.bIsLANMatch = be.subsystemIsNull
    /\ HasEvent(trace, "primitive", "find") =>
          /\ sub.LastSessionSearch.set
          /\ sub.LastSessionSearch.bIsLanQuery = be.subsystemIsNull
    /\ (sub.LastSessionSettings.set /\ sub.LastSessionSearch.set) =>
          sub.LastSessionSearch.bIsLanQuery = sub.LastSessionSettings.bIsLANMatch

\* On the NULL subsystem a create for 2 players of type "Coop" reached the
\* backend as a LAN match, after a find that had built a LAN query.
C20_Witness ==
    /\ be.subsystemIsNull
    /\ HasEvent(trace, "primitive", "create")
    /\ \E c \in EventIndices(trace, "call", "CreateSession") :
           trace[c].n = 2 /\ trace[c].m = "Coop"
    /\ be.lastCreateSettings.bIsLANMatch
    /\ sub.LastSessionSearch.set /\ sub.LastSessionSearch.bIsLanQuery

\* ---- C21 ----
\* C21: with a backend that completes every primitive it accepted, every
\* kind that is Pending eventually returns to Idle with no registration of
\* that kind live.
C21_ReturnToIdle ==
    \A k \in AsyncKinds : (~Idle(k)) ~> (Idle(k) /\ be.regs[k] = {})

\* ---- C22 ----
\* C22: on every completion path of create, find and join the registration
\* is released before the notification is published: the publication comes
\* right after the release of the stored token, and at that moment no
\* registration of the kind is live, so a handler can issue the same kind
\* of operation again without a second live registration.
C22_UnregisterPrecedesPublish ==
    \A k \in AsyncKinds : \A p \in EventIndices(trace, "publish", k) :
        sub.valid =>
            /\ p > 1
            /\ trace[p - 1].e = "unregister" /\ trace[p - 1].kind = k
            /\ trace[p - 1].handle \notin trace[p].regs
            /\ trace[p].regs = {}

\* ---- C23 ----
\* C23: a CreateSession call made while a session exists issues the destroy
\* primitive, then registers the create callback, then builds the descriptor,
\* then invokes the create primitive, all in the one call; the destroy is
\* still outstanding when the call returns, together with the new create
\* when the backend accepted it.
C23_Step ==
    (IsCall(trace', "CreateSession") /\ sub.valid /\ be.sessionExists) =>
        /\ \E d \in EventIndices(trace', "primitive", "destroy") :
           \E r \in EventIndices(trace', "register", "create") :
           \E b \in EventIndices(trace', "build", "create") :
           \E c \in EventIndices(trace', "primitive", "create") :
               d < r /\ r < b /\ b < c
        /\ be'.pending["destroy"] = be.pending["destroy"] + 1
        /\ Answered(trace', "create", TRUE) =>
              be'.pending["create"] = be.pending["create"] + 1

C23_FireAndForgetDestroy == [][C23_Step]_vars

\* The prior session's destroy is outstanding while the new create is pending.
C23_Witness ==
    /\ IsCall(trace, "CreateSession")
    /\ HasEvent(trace, "primitive", "destroy")
    /\ be.pending["destroy"] > 0
    /\ be.pending["create"] > 0

\* ---- C24 ----
OperationOf(k) ==
    IF k = "create" THEN "CreateSession"
    ELSE IF k = "find" THEN "FindSessions" ELSE "JoinSession"

\* C24: an operation issued while registrations of its kind are live
\* overwrites the stored token with the token of its own registration; every
\* unregistration targets the stored token, so a registration whose token
\* was overwritten is never released, also not when its operation completes.
C24_Step ==
    \A k \in AsyncKinds :
        /\ (IsCall(trace', OperationOf(k)) /\ sub.valid) =>
              /\ StoredHandle(sub', k) = be.nextHandle
              /\ StoredHandle(sub', k) \notin be.regs[k]
              /\ be.regs[k] \subseteq be'.regs[k]
        /\ \A u \in EventIndices(trace', "unregister", k) :
              trace'[u].handle = StoredHandle(sub', k)
        /\ \A h \in be.regs[k] : h # StoredHandle(sub, k) => h \in be'.regs[k]

C24_TokenOverwrite == [][C24_Step]_vars

\* Two creates were issued back to back and both have completed; a create
\* registration is still live.
C24_Witness ==
    /\ IsCompletion(trace, "create")
    /\ obs.issued["create"] = 2
    /\ Idle("create")
    /\ be.regs["create"] # {}
    /\ sub.CreateSessionCompleteDelegateHandle \notin be.regs["create"]

\* ---- C25 ----
\* C25: when the backend completes a find with a non-empty result sequence,
\* FindComplete is published with that find's own results, in the backend's
\* order, and with the backend's flag unchanged, also for the first of two
\* finds issued back to back.
C25_FindPassThrough ==
    (IsCompletion(trace, "find") /\ trace[1].results # <<>>) =>
        /\ HasEvent(trace, "publish", "find")
        /\ \A p \in EventIndices(trace, "publish", "find") :
              /\ trace[p].results = trace[1].results
              /\ trace[p].flag = trace[1].flag

\* ---- C26 ----
\* JoinComplete(Success) reached the menu in the last step.
JoinSuccessDelivered ==
    \E i \in EventIndices(trace, "handler", "OnJoinSession") : trace[i].code = "Success"

\* C26: with a backend that completes every primitive it accepted, after
\* JoinButtonClicked has disabled the join button, eventually the button is
\* enabled again or JoinComplete(Success) is delivered.
C26_JoinControlRecovers ==
    (IsCall(trace, "JoinButtonClicked") /\ ~ui.JoinEnabled)
        ~> (ui.JoinEnabled \/ JoinSuccessDelivered)

\* ---- C27 ----
\* CreateComplete(true) reached the menu in the last step.
CreateSuccessDelivered ==
    \E i \in EventIndices(trace, "handler", "OnCreateSession") : trace[i].flag

\* C27: with a backend that completes every primitive it accepted, after
\* HostButtonClicked has disabled the host button, eventually the button is
\* enabled again or CreateComplete(true) is delivered.
C27_HostControlRecovers ==
    (IsCall(trace, "HostButtonClicked") /\ ~ui.HostEnabled)
        ~> (ui.HostEnabled \/ CreateSuccessDelivered)

\* ---- C28 ----
JoinHandlerRuns(tr) == EventIndices(tr, "handler", "OnJoinSession")

Travelled(tr, i) ==
    i < Len(tr) /\ tr[i + 1].e = "travel" /\ tr[i + 1].kind = "ClientTravel"

\* C28: the menu travels to the resolved address only when the delivered
\* JoinComplete result is Success; for every other result it does not
\* travel and the join button is enabled again.
C28_TravelOnlyOnSuccess ==
    \A i \in JoinHandlerRuns(trace) :
        /\ Travelled(trace, i) => trace[i].code = "Success"
        /\ trace[i].code # "Success" => ui.JoinEnabled

\* ---- C29 ----
\* C29: JoinSession with an invalid backend handle publishes
\* JoinComplete(UnknownError) exactly once, registers nothing, invokes no
\* primitive and leaves the stored join token unchanged.
C29_Step ==
    (IsCall(trace', "JoinSession") /\ ~sub.valid) =>
        /\ CountEvents(trace', "publish", "join") = 1
        /\ \A p \in EventIndices(trace', "publish", "join") : trace'[p].code = "UnknownError"
        /\ obs'.pub["join"] = obs.pub["join"] + 1
        /\ \A i \in 1..Len(trace') : trace'[i].e \notin {"register", "unregister", "primitive"}
        /\ sub' = sub
        /\ be' = be

C29_JoinBackendUnavailable == [][C29_Step]_vars

\* JoinSession was called on a subsystem whose backend handle is invalid and
\* JoinComplete(UnknownError) went out.
C29_Witness ==
    /\ ~sub.valid
    /\ IsCall(trace, "JoinSession")
    /\ \E p \in EventIndices(trace, "publish", "join") : trace[p].code = "UnknownError"

\* ---- C30 ----
FindPublications(tr) == EventIndices(tr, "publish", "find")

\* The JoinSession calls made in reaction to the publication at index p.
JoinCallsAfter(tr, p) ==
    {j \in (p + 1)..Len(tr) :
        /\ tr[j].e = "call" /\ tr[j].kind = "JoinSession"
        /\ \A q \in FindPublications(tr) : q <= p \/ q > j}

\* C30: whatever MenuSetup and MenuTearDown calls were made on the menu,
\* each published FindComplete causes at most one JoinSession call.
C30_OneJoinPerFind ==
    \A p \in FindPublications(trace) : Cardinality(JoinCallsAfter(trace, p)) <= 1
====
